---- MODULE Spec2Model ----
(***************************************************************************)
(* Model of markdown2html.py: parse_markdown as a line-by-line state       *)
(* machine.  Strings are sequences of one-character strings, so that       *)
(* strip, split, the two regular-expression substitutions, the tag         *)
(* formatting and the joins are computed character by character.           *)
(***************************************************************************)
EXTENDS Integers, Sequences, FiniteSets, TLC

\* Longest document text (in characters) drawn by Init.
MaxDocLen == 5

\* Characters a document is made of: the three block markers, the space
\* that strip() and split(' ') act on, a letter, and the line terminator.
NL == "\n"
Alphabet == {"#", "-", "*", " ", "a", NL}

VARIABLES md_content, md_lines, i, html_lines, in_unordered_list, in_ordered_list,
          paragraph_lines, pc, html_content,
          other, argv, files, stderr, exit_status

\* The locals of the parse_markdown invocation that is running.
locals == <<md_content, md_lines, i, html_lines, in_unordered_list, in_ordered_list,
            paragraph_lines, pc, html_content>>

\* What lies outside the running invocation: the locals of a second
\* invocation that is suspended, and the process the script runs in (its
\* arguments, the files, the error stream, the exit status).
env == <<other, argv, files, stderr, exit_status>>

vars == <<md_content, md_lines, i, html_lines, in_unordered_list, in_ordered_list,
          paragraph_lines, pc, html_content,
          other, argv, files, stderr, exit_status>>

-----------------------------------------------------------------------------
(* String helpers: the Python built-ins the parser calls.                  *)

\* All character sequences of length at most n.
RECURSIVE StringsUpTo(_)
StringsUpTo(n) ==
    IF n = 0 THEN {<<>>}
    ELSE LET shorter == StringsUpTo(n - 1)
         IN  shorter \cup {Append(s, c) : s \in {t \in shorter : Len(t) = n - 1},
                                          c \in Alphabet}

\* str.isspace() on one character.
IsSpace(c) == c = " "

\* str.lstrip(), str.rstrip(), str.strip().
RECURSIVE LStrip(_)
LStrip(s) == IF s # <<>> /\ IsSpace(Head(s)) THEN LStrip(Tail(s)) ELSE s

RECURSIVE RStrip(_)
RStrip(s) ==
    IF s # <<>> /\ IsSpace(s[Len(s)]) THEN RStrip(SubSeq(s, 1, Len(s) - 1)) ELSE s

Strip(s) == RStrip(LStrip(s))

\* s[n:] of Python (n >= 0).
From(s, n) == SubSeq(s, n + 1, Len(s))

\* str.startswith(prefix).
StartsWith(s, prefix) ==
    Len(s) >= Len(prefix) /\ SubSeq(s, 1, Len(prefix)) = prefix

\* str.splitlines(): a terminator ends a line, and a final line without a
\* terminator is a line too; the empty text has no line.
RECURSIVE SplitLinesFrom(_, _, _)
SplitLinesFrom(s, k, cur) ==
    IF k > Len(s) THEN (IF cur = <<>> THEN <<>> ELSE <<cur>>)
    ELSE IF s[k] = NL THEN <<cur>> \o SplitLinesFrom(s, k + 1, <<>>)
    ELSE SplitLinesFrom(s, k + 1, Append(cur, s[k]))

SplitLines(s) == SplitLinesFrom(s, 1, <<>>)

\* sep.join(parts).
RECURSIVE Join(_, _)
Join(sep, parts) ==
    IF parts = <<>> THEN <<>>
    ELSE IF Len(parts) = 1 THEN parts[1]
    ELSE parts[1] \o sep \o Join(sep, Tail(parts))

\* str(n) for n >= 0, as the f-string formats heading_level.
Digit(d) == <<"0", "1", "2", "3", "4", "5", "6", "7", "8", "9">>[d + 1]

RECURSIVE DecStr(_)
DecStr(n) == IF n < 10 THEN <<Digit(n)>> ELSE Append(DecStr(n \div 10), Digit(n % 10))

\* line.split(' ')[0]: the text before the first space.
RECURSIVE FirstToken(_)
FirstToken(s) ==
    IF s = <<>> \/ Head(s) = " " THEN <<>> ELSE <<Head(s)>> \o FirstToken(Tail(s))

-----------------------------------------------------------------------------
(* Tags.                                                                   *)

TagP == <<"<", "p", ">">>
TagPEnd == <<"<", "/", "p", ">">>
TagBr == <<"<", "b", "r", "/", ">">>
TagUl == <<"<", "u", "l", ">">>
TagUlEnd == <<"<", "/", "u", "l", ">">>
TagOl == <<"<", "o", "l", ">">>
TagOlEnd == <<"<", "/", "o", "l", ">">>
TagLi == <<"<", "l", "i", ">">>
TagLiEnd == <<"<", "/", "l", "i", ">">>
TagB == <<"<", "b", ">">>
TagBEnd == <<"<", "/", "b", ">">>
TagEm == <<"<", "e", "m", ">">>
TagEmEnd == <<"<", "/", "e", "m", ">">>

-----------------------------------------------------------------------------
(* apply_text_styles: re.sub(marker marker (.*?) marker marker, open \1    *)
(* close).  The scan goes left to right; at a position where the marker    *)
(* pair stands, the lazy group ends at the first later marker pair; when   *)
(* there is none the character is copied and the scan moves on by one.     *)

PairAt(text, k, m) == k + 1 <= Len(text) /\ text[k] = m /\ text[k + 1] = m

\* The greedy group (.*): greatest q >= k where the marker pair stands, 0
\* when there is none.
RECURSIVE NextPair_greedy(_, _, _)
NextPair_greedy(text, k, m) ==
    IF k + 1 > Len(text) THEN 0
    ELSE LET later == NextPair_greedy(text, k + 1, m)
         IN  IF later # 0 THEN later
             ELSE IF PairAt(text, k, m) THEN k ELSE 0

\* Least q >= k where the marker pair stands, 0 when there is none.
RECURSIVE NextPair(_, _, _)
NextPair(text, k, m) ==
    IF k + 1 > Len(text) THEN 0
    ELSE IF PairAt(text, k, m) THEN k
    ELSE NextPair(text, k + 1, m)

RECURSIVE SubFrom(_, _, _, _, _)
SubFrom(text, k, m, open, close) ==
    IF k > Len(text) THEN <<>>
    ELSE LET q == IF PairAt(text, k, m) THEN NextPair(text, k + 2, m) ELSE 0
         IN  IF q # 0
             THEN open \o SubSeq(text, k + 2, q - 1) \o close
                       \o SubFrom(text, q + 2, m, open, close)
             ELSE <<text[k]>> \o SubFrom(text, k + 1, m, open, close)

ReSub(text, m, open, close) == SubFrom(text, 1, m, open, close)

apply_text_styles(text) ==
    ReSub(ReSub(text, "*", TagB, TagBEnd), "_", TagEm, TagEmEnd)

-----------------------------------------------------------------------------
(* parse_markdown.                                                         *)

\* The list md_content.splitlines() the for loop iterates over; it is built
\* once, when the loop starts.
DocLines == md_lines

\* The styled line without line 61's strip.
StyledLine_unstripped(k) == apply_text_styles(DocLines[k])

\* The loop variable after "line = line.strip()" and
\* "line = apply_text_styles(line)", for the k-th line of the document.
StyledLine(k) == apply_text_styles(Strip(DocLines[k]))

\* The line the next iteration works on.
line == StyledLine(i + 1)

\* close_paragraph appending the accumulated lines one by one, not joined.
close_paragraph_unjoined(hl, pl) ==
    IF pl # <<>> THEN hl \o <<TagP>> \o pl \o <<TagPEnd>> ELSE hl

\* close_paragraph without its test "if paragraph_lines".
close_paragraph_unguarded(hl, pl) == hl \o <<TagP, Join(TagBr, pl), TagPEnd>>

\* close_paragraph(): html_lines after the call.  paragraph_lines is empty
\* after the call in either case.
close_paragraph(hl, pl) ==
    IF pl # <<>> THEN hl \o <<TagP, Join(TagBr, pl), TagPEnd>> ELSE hl

\* "if in_unordered_list: html_lines.append('</ul>')".
close_unordered(hl, open) == IF open THEN Append(hl, TagUlEnd) ELSE hl

\* "if in_ordered_list: html_lines.append('</ol>')".
close_ordered(hl, open) == IF open THEN Append(hl, TagOlEnd) ELSE hl

\* "if not in_unordered_list: html_lines.append('<ul>')".
open_unordered(hl, open) == IF ~open THEN Append(hl, TagUl) ELSE hl

\* "if not in_ordered_list: html_lines.append('<ol>')".
open_ordered(hl, open) == IF ~open THEN Append(hl, TagOl) ELSE hl

\* heading_level = len(line.split(' ')[0])
heading_level(l) == Len(FirstToken(l))

\* heading_text = line[heading_level:].strip()
heading_text(l) == Strip(From(l, heading_level(l)))

\* f'<h{heading_level}>{heading_text}</h{heading_level}>'
heading_html(l) ==
    <<"<", "h">> \o DecStr(heading_level(l)) \o <<">">> \o heading_text(l)
        \o <<"<", "/", "h">> \o DecStr(heading_level(l)) \o <<">">>

\* list_item_text = line[1:].strip(); f'<li>{list_item_text}</li>'
list_item_html(l) == TagLi \o Strip(From(l, 1)) \o TagLiEnd

\* The branch conditions of the if / elif chain, in the order it tests them.
IsHeading(l) == StartsWith(l, <<"#">>)
IsUnorderedItem(l) == ~IsHeading(l) /\ StartsWith(l, <<"-">>)
IsOrderedItem(l) == ~IsHeading(l) /\ ~IsUnorderedItem(l) /\ StartsWith(l, <<"*">>)
IsOther(l) == ~IsHeading(l) /\ ~IsUnorderedItem(l) /\ ~IsOrderedItem(l)

InLoop == pc = "loop" /\ i < Len(DocLines)

\* No second invocation.
NoInvocation == [pc |-> "none"]

\* parse_markdown called on its own: there is no second invocation, and the
\* process around the call plays no part.
NoEnv ==
    /\ other = NoInvocation
    /\ argv = <<>>
    /\ files = <<>>
    /\ stderr = <<>>
    /\ exit_status = <<>>

Init ==
    /\ md_content \in StringsUpTo(MaxDocLen)
    /\ md_lines = SplitLines(md_content)
    /\ i = 0
    /\ html_lines = <<>>
    /\ in_unordered_list = FALSE
    /\ in_ordered_list = FALSE
    /\ paragraph_lines = <<>>
    /\ pc = "loop"
    /\ html_content = <<>>
    /\ NoEnv

\* The heading branch without its two list-closing statements.
Heading_lists_left_open ==
    /\ InLoop
    /\ IsHeading(line)
    /\ html_lines' =
         Append(close_paragraph(html_lines, paragraph_lines), heading_html(line))
    /\ paragraph_lines' = <<>>
    /\ i' = i + 1
    /\ UNCHANGED <<md_content, md_lines, in_unordered_list, in_ordered_list, pc,
                   html_content>>
    /\ UNCHANGED env

\* The heading branch taking the text as the second piece of the split: a
\* heading line without a space has none, and the call ends in an IndexError.
Heading_needs_text ==
    /\ InLoop
    /\ IsHeading(line)
    /\ IF Len(FirstToken(line)) < Len(line)
       THEN /\ html_lines' =
                 Append(close_ordered(close_unordered(
                            close_paragraph(html_lines, paragraph_lines),
                            in_unordered_list), in_ordered_list),
                        heading_html(line))
            /\ paragraph_lines' = <<>>
            /\ in_unordered_list' = FALSE
            /\ in_ordered_list' = FALSE
            /\ i' = i + 1
            /\ UNCHANGED <<md_content, md_lines, pc, html_content>>
       ELSE /\ pc' = "error"
            /\ UNCHANGED <<md_content, md_lines, i, html_lines, in_unordered_list,
                           in_ordered_list, paragraph_lines, html_content>>
    /\ UNCHANGED env

\* One iteration on a line that starts with '#'.
Heading ==
    /\ InLoop
    /\ IsHeading(line)
    /\ html_lines' =
         Append(close_ordered(close_unordered(
                    close_paragraph(html_lines, paragraph_lines),
                    in_unordered_list), in_ordered_list),
                heading_html(line))
    /\ paragraph_lines' = <<>>
    /\ in_unordered_list' = FALSE
    /\ in_ordered_list' = FALSE
    /\ i' = i + 1
    /\ UNCHANGED <<md_content, md_lines, pc, html_content>>
    /\ UNCHANGED env

\* The '-' branch without its call of close_paragraph.
UnorderedItem_no_flush ==
    /\ InLoop
    /\ IsUnorderedItem(line)
    /\ html_lines' =
         Append(open_unordered(html_lines, in_unordered_list),
                list_item_html(line))
    /\ in_unordered_list' = TRUE
    /\ i' = i + 1
    /\ UNCHANGED <<md_content, md_lines, paragraph_lines, in_ordered_list, pc,
                   html_content>>
    /\ UNCHANGED env

\* One iteration on a line that starts with '-'.
UnorderedItem ==
    /\ InLoop
    /\ IsUnorderedItem(line)
    /\ html_lines' =
         Append(open_unordered(close_paragraph(html_lines, paragraph_lines),
                               in_unordered_list),
                list_item_html(line))
    /\ paragraph_lines' = <<>>
    /\ in_unordered_list' = TRUE
    /\ i' = i + 1
    /\ UNCHANGED <<md_content, md_lines, in_ordered_list, pc, html_content>>
    /\ UNCHANGED env

\* The '*' branch appending '<ol>' before every item, open list or not.
OrderedItem_reopens ==
    /\ InLoop
    /\ IsOrderedItem(line)
    /\ html_lines' =
         Append(open_ordered(close_paragraph(html_lines, paragraph_lines),
                             FALSE),
                list_item_html(line))
    /\ paragraph_lines' = <<>>
    /\ in_ordered_list' = TRUE
    /\ i' = i + 1
    /\ UNCHANGED <<md_content, md_lines, in_unordered_list, pc, html_content>>
    /\ UNCHANGED env

\* One iteration on a line that starts with '*'.
OrderedItem ==
    /\ InLoop
    /\ IsOrderedItem(line)
    /\ html_lines' =
         Append(open_ordered(close_paragraph(html_lines, paragraph_lines),
                             in_ordered_list),
                list_item_html(line))
    /\ paragraph_lines' = <<>>
    /\ in_ordered_list' = TRUE
    /\ i' = i + 1
    /\ UNCHANGED <<md_content, md_lines, in_unordered_list, pc, html_content>>
    /\ UNCHANGED env

\* The else branch assigning the line to the accumulator instead of
\* appending it.
ParagraphLine_overwrites ==
    /\ InLoop
    /\ IsOther(line)
    /\ line # <<>>
    /\ html_lines' =
         close_ordered(close_unordered(html_lines, in_unordered_list),
                       in_ordered_list)
    /\ paragraph_lines' = <<line>>
    /\ in_unordered_list' = FALSE
    /\ in_ordered_list' = FALSE
    /\ i' = i + 1
    /\ UNCHANGED <<md_content, md_lines, pc, html_content>>
    /\ UNCHANGED env

\* The else branch appending the line without closing the open lists.
ParagraphLine_lists_left_open ==
    /\ InLoop
    /\ IsOther(line)
    /\ line # <<>>
    /\ paragraph_lines' = Append(paragraph_lines, line)
    /\ i' = i + 1
    /\ UNCHANGED <<md_content, md_lines, html_lines, in_unordered_list,
                   in_ordered_list, pc, html_content>>
    /\ UNCHANGED env

\* One iteration on a non-empty line of the else branch: the open lists are
\* closed and the line joins the paragraph.
ParagraphLine ==
    /\ InLoop
    /\ IsOther(line)
    /\ line # <<>>
    /\ html_lines' =
         close_ordered(close_unordered(html_lines, in_unordered_list),
                       in_ordered_list)
    /\ paragraph_lines' = Append(paragraph_lines, line)
    /\ in_unordered_list' = FALSE
    /\ in_ordered_list' = FALSE
    /\ i' = i + 1
    /\ UNCHANGED <<md_content, md_lines, pc, html_content>>
    /\ UNCHANGED env

\* The else branch closing the open lists only when the line is not empty.
BlankLine_keeps_lists ==
    /\ InLoop
    /\ IsOther(line)
    /\ line = <<>>
    /\ html_lines' = close_paragraph(html_lines, paragraph_lines)
    /\ paragraph_lines' = <<>>
    /\ i' = i + 1
    /\ UNCHANGED <<md_content, md_lines, in_unordered_list, in_ordered_list,
                   pc, html_content>>
    /\ UNCHANGED env

\* One iteration on an empty line: the open lists are closed, then the
\* paragraph.
BlankLine ==
    /\ InLoop
    /\ IsOther(line)
    /\ line = <<>>
    /\ html_lines' =
         close_paragraph(close_ordered(close_unordered(html_lines,
                             in_unordered_list), in_ordered_list),
                         paragraph_lines)
    /\ paragraph_lines' = <<>>
    /\ in_unordered_list' = FALSE
    /\ in_ordered_list' = FALSE
    /\ i' = i + 1
    /\ UNCHANGED <<md_content, md_lines, pc, html_content>>
    /\ UNCHANGED env

\* Finish without the two list-closing statements after the loop.
Finish_lists_left_open ==
    /\ pc = "loop"
    /\ i = Len(DocLines)
    /\ html_lines' = close_paragraph(html_lines, paragraph_lines)
    /\ paragraph_lines' = <<>>
    /\ html_content' = Join(<<NL>>, html_lines')
    /\ pc' = "done"
    /\ UNCHANGED <<md_content, md_lines, i, in_unordered_list, in_ordered_list>>
    /\ UNCHANGED env

\* After the loop: the paragraph, then the lists are closed (the flags keep
\* their values) and the lines are joined.
Finish ==
    /\ pc = "loop"
    /\ i = Len(DocLines)
    /\ html_lines' =
         close_ordered(close_unordered(
             close_paragraph(html_lines, paragraph_lines),
             in_unordered_list), in_ordered_list)
    /\ paragraph_lines' = <<>>
    /\ html_content' = Join(<<NL>>, html_lines')
    /\ pc' = "done"
    /\ UNCHANGED <<md_content, md_lines, i, in_unordered_list, in_ordered_list>>
    /\ UNCHANGED env

Next ==
    \/ Heading
    \/ UnorderedItem
    \/ OrderedItem
    \/ ParagraphLine
    \/ BlankLine
    \/ Finish

Spec == Init /\ [][Next]_vars

-----------------------------------------------------------------------------
(* Reading the output.  No character of Alphabet is '<', so an output line *)
(* that equals a block tag was appended as that tag by the parser.         *)

\* Number of positions of seq that hold x.
RECURSIVE Count(_, _)
Count(seq, x) ==
    IF seq = <<>> THEN 0
    ELSE (IF Head(seq) = x THEN 1 ELSE 0) + Count(Tail(seq), x)

IsLiLine(l) == StartsWith(l, TagLi)
IsHLine(l) == StartsWith(l, <<"<", "h">>)

\* The output lines appended by the step being taken.
Emitted == From(html_lines', Len(html_lines))

\* Some a stands before some b in seq.
Precedes(seq, a, b) ==
    \E j, k \in 1..Len(seq) : j < k /\ seq[j] = a /\ seq[k] = b

\* The block tags of seq[k..] are properly nested over the stack of blocks
\* still open: a closing tag closes the block opened last, and nothing
\* stays open at the end.
RECURSIVE NestedFrom(_, _, _)
NestedFrom(seq, k, stack) ==
    IF k > Len(seq) THEN stack = <<>>
    ELSE IF seq[k] \in {TagUl, TagOl, TagP}
         THEN NestedFrom(seq, k + 1, <<seq[k]>> \o stack)
    ELSE IF seq[k] \in {TagUlEnd, TagOlEnd, TagPEnd}
         THEN /\ stack # <<>>
              /\ Head(stack) = (CASE seq[k] = TagUlEnd -> TagUl
                                  [] seq[k] = TagOlEnd -> TagOl
                                  [] OTHER -> TagP)
              /\ NestedFrom(seq, k + 1, Tail(stack))
    ELSE NestedFrom(seq, k + 1, stack)

ProperlyNested(seq) == NestedFrom(seq, 1, <<>>)

-----------------------------------------------------------------------------
\* C1: in the returned output the '</ul>' lines are as many as the '<ul>'
\* lines and the '</ol>' lines as many as the '<ol>' lines, also when the
\* document ends inside a list.
C1_ListTagsBalanced ==
    pc = "done" =>
        /\ Count(html_lines, TagUlEnd) = Count(html_lines, TagUl)
        /\ Count(html_lines, TagOlEnd) = Count(html_lines, TagOl)

\* A document that ends inside an unordered list, the second one it opened.
C1_Witness ==
    /\ pc = "done"
    /\ in_unordered_list
    /\ Count(html_lines, TagUl) = 2
    /\ html_lines[Len(html_lines)] = TagUlEnd

\* C2: in_unordered_list and in_ordered_list are never both true.
C2_ListFlagsExclusive == ~(in_unordered_list /\ in_ordered_list)

\* C3: a '-' line processed while the ordered list is open emits '</ol>'
\* before '<ul>' and leaves the ordered list; a '*' line processed while the
\* unordered list is open emits '</ul>' before '<ol>' and leaves the
\* unordered list.
C3_OtherListClosedFirst ==
    [][/\ (InLoop /\ IsUnorderedItem(line) /\ in_ordered_list) =>
            (~in_ordered_list' /\ Precedes(Emitted, TagOlEnd, TagUl))
       /\ (InLoop /\ IsOrderedItem(line) /\ in_unordered_list) =>
            (~in_unordered_list' /\ Precedes(Emitted, TagUlEnd, TagOl))]_vars

\* C4: the block tags of the returned output are properly nested: each
\* '</ul>', '</ol>', '</p>' closes the block opened last among those still
\* open, and no block is open at the end.
C4_BlocksProperlyNested == pc = "done" => ProperlyNested(html_lines)

\* Number of leading '#' characters of l.
RECURSIVE LeadingHashes(_)
LeadingHashes(l) ==
    IF l # <<>> /\ Head(l) = "#" THEN 1 + LeadingHashes(Tail(l)) ELSE 0

\* '<hN>text</hN>'.
HeadingTag(n, text) ==
    <<"<", "h">> \o DecStr(n) \o <<">">> \o text \o <<"<", "/", "h">> \o DecStr(n)
        \o <<">">>

\* C5: the first line of a maximal run of '-' lines emits exactly one '<ul>'
\* line immediately before its '<li>' line, and every further line of the
\* run emits its '<li>' line alone, right after the previous item's.
C5_OneUlPerRun ==
    [][(InLoop /\ IsUnorderedItem(line)) =>
         IF i >= 1 /\ IsUnorderedItem(StyledLine(i))
         THEN /\ Len(Emitted) = 1
              /\ IsLiLine(Emitted[1])
              /\ IsLiLine(html_lines[Len(html_lines)])
         ELSE /\ Len(Emitted) >= 2
              /\ Count(Emitted, TagUl) = 1
              /\ Emitted[Len(Emitted) - 1] = TagUl
              /\ IsLiLine(Emitted[Len(Emitted)])]_vars

\* C6: a heading step appends the pending paragraph and the closing tag of
\* every open list before the heading line, which comes last; after it both
\* list flags are false and the paragraph accumulator is empty.
C6_HeadingClosesBlocks ==
    [][(InLoop /\ IsHeading(line)) =>
         /\ SubSeq(html_lines', 1, Len(html_lines)) = html_lines
         /\ Len(Emitted) >= 1
         /\ IsHLine(Emitted[Len(Emitted)])
         /\ \A j \in 1..(Len(Emitted) - 1) : ~IsHLine(Emitted[j])
         /\ Count(Emitted, TagUlEnd) = (IF in_unordered_list THEN 1 ELSE 0)
         /\ Count(Emitted, TagOlEnd) = (IF in_ordered_list THEN 1 ELSE 0)
         /\ Count(Emitted, TagPEnd) = (IF paragraph_lines # <<>> THEN 1 ELSE 0)
         /\ (paragraph_lines # <<>> =>
                SubSeq(Emitted, 1, 3)
                    = <<TagP, Join(TagBr, paragraph_lines), TagPEnd>>)
         /\ ~in_unordered_list'
         /\ ~in_ordered_list'
         /\ paragraph_lines' = <<>>]_vars

\* A heading has just been appended right after the closing tags of both
\* lists, which were open together.
C6_Witness ==
    /\ pc = "loop"
    /\ Len(html_lines) >= 3
    /\ IsHLine(html_lines[Len(html_lines)])
    /\ html_lines[Len(html_lines) - 1] = TagOlEnd
    /\ html_lines[Len(html_lines) - 2] = TagUlEnd
    /\ ~in_unordered_list
    /\ ~in_ordered_list

\* C7: a heading step emits '<hN>text</hN>' where N is the number of leading
\* '#' characters of the line and text is the rest of the line, stripped.
C7_LevelIsHashCount ==
    [][(InLoop /\ IsHeading(line)) =>
         Emitted[Len(Emitted)]
            = HeadingTag(LeadingHashes(line),
                         Strip(From(line, LeadingHashes(line))))]_vars

\* s split at every occurrence of sep (sep is not empty).
RECURSIVE SplitByFrom(_, _, _, _)
SplitByFrom(s, sep, k, cur) ==
    IF k > Len(s) THEN <<cur>>
    ELSE IF k + Len(sep) - 1 <= Len(s) /\ SubSeq(s, k, k + Len(sep) - 1) = sep
         THEN <<cur>> \o SplitByFrom(s, sep, k + Len(sep), <<>>)
    ELSE SplitByFrom(s, sep, k + 1, Append(cur, s[k]))

SplitBy(s, sep) == SplitByFrom(s, sep, 1, <<>>)

\* The k-th line of the document is a paragraph line: it is not empty and
\* starts with none of '#', '-', '*'; judged as the parser judges it, after
\* strip and inline styling, or on the stripped text alone.
IsParagraphLine(k, styled) ==
    LET l == IF styled THEN StyledLine(k) ELSE Strip(DocLines[k])
    IN  l # <<>> /\ IsOther(l)

\* The maximal runs of consecutive paragraph lines of the document from line
\* k on, cur being the run under way; each line as the parser holds it
\* (stripped and styled) or only stripped.
RECURSIVE RunsFrom(_, _, _)
RunsFrom(k, cur, styled) ==
    IF k > Len(DocLines) THEN (IF cur = <<>> THEN <<>> ELSE <<cur>>)
    ELSE IF IsParagraphLine(k, styled)
         THEN RunsFrom(k + 1,
                       Append(cur, IF styled THEN StyledLine(k)
                                             ELSE Strip(DocLines[k])),
                       styled)
    ELSE (IF cur = <<>> THEN <<>> ELSE <<cur>>) \o RunsFrom(k + 1, <<>>, styled)

Runs(styled) == RunsFrom(1, <<>>, styled)

\* The '<p>' blocks of hl[k..], each as the pieces of the line that follows
\* its '<p>' line.
RECURSIVE BlocksFrom(_, _)
BlocksFrom(hl, k) ==
    IF k > Len(hl) THEN <<>>
    ELSE IF hl[k] = TagP /\ k < Len(hl)
         THEN <<SplitBy(hl[k + 1], TagBr)>> \o BlocksFrom(hl, k + 2)
    ELSE BlocksFrom(hl, k + 1)

\* Every '<p>' line of hl is followed by one line and then by '</p>', and
\* there is no other '</p>' line.
ThreeLineBlocks(hl) ==
    /\ \A k \in 1..Len(hl) :
          hl[k] = TagP => (k + 2 <= Len(hl) /\ hl[k + 2] = TagPEnd)
    /\ Count(hl, TagPEnd) = Count(hl, TagP)

\* C8 as stated: every maximal run of non-blank lines that start with none
\* of '#', '-', '*' comes out as '<p>', one line holding the stripped lines
\* of the run joined by '<br/>', '</p>'.
C8_RunIsStrippedLines ==
    pc = "done" =>
        /\ ThreeLineBlocks(html_lines)
        /\ \A r \in 1..Len(Runs(FALSE)) :
              \E b \in 1..Len(BlocksFrom(html_lines, 1)) :
                 BlocksFrom(html_lines, 1)[b] = Runs(FALSE)[r]

\* C8 amended: the '<p>' blocks of the output are, in order, the maximal
\* runs of lines that after strip and inline styling are not empty and start
\* with none of '#', '-', '*': each block is '<p>', one line holding the
\* lines of the run, stripped and styled, joined by '<br/>', '</p>'.
C8_RunIsStyledLines ==
    pc = "done" =>
        (ThreeLineBlocks(html_lines) /\ BlocksFrom(html_lines, 1) = Runs(TRUE))

\* The document is parsed and has a run of two lines.
C8_Witness ==
    /\ pc = "done"
    /\ \E r \in 1..Len(Runs(TRUE)) : Len(Runs(TRUE)[r]) = 2

\* C9: the step on an empty line, a heading line or a list-item line, and
\* the step at the end of the document, leave the paragraph accumulator
\* empty, and the lines it held are emitted in one '<p>' block that stands
\* before the output of the line itself.
C9_AccumulatorFlushed ==
    [][(\/ pc' = "done"
        \/ InLoop /\ (line = <<>> \/ IsHeading(line) \/ IsUnorderedItem(line)
                        \/ IsOrderedItem(line)))
       => /\ paragraph_lines' = <<>>
          /\ paragraph_lines # <<>> =>
               \E j \in 1..(Len(Emitted) - 2) :
                  /\ Emitted[j] = TagP
                  /\ SplitBy(Emitted[j + 1], TagBr) = paragraph_lines
                  /\ Emitted[j + 2] = TagPEnd
                  /\ \A k \in 1..Len(Emitted) :
                        (IsHLine(Emitted[k]) \/ IsLiLine(Emitted[k])) => k > j + 2
                  /\ (InLoop /\ line # <<>>) => j + 2 < Len(Emitted)]_vars

\* A list item has just flushed a paragraph of two lines.
C9_Witness ==
    /\ pc = "loop"
    /\ paragraph_lines = <<>>
    /\ Len(html_lines) >= 5
    /\ IsLiLine(html_lines[Len(html_lines)])
    /\ html_lines[Len(html_lines) - 1] \in {TagUl, TagOl}
    /\ html_lines[Len(html_lines) - 2] = TagPEnd
    /\ Len(SplitBy(html_lines[Len(html_lines) - 3], TagBr)) = 2

\* The content elements of hl[k..] in output order: a heading, a list item
\* with its text, or a piece of a paragraph with its text.
RECURSIVE ElementsFrom(_, _)
ElementsFrom(hl, k) ==
    IF k > Len(hl) THEN <<>>
    ELSE IF hl[k] = TagP /\ k < Len(hl)
         THEN LET pieces == SplitBy(hl[k + 1], TagBr)
              IN  [n \in 1..Len(pieces) |-> <<"p", pieces[n]>>]
                      \o ElementsFrom(hl, k + 2)
    ELSE IF IsLiLine(hl[k])
         THEN <<<<"li", SubSeq(hl[k], Len(TagLi) + 1, Len(hl[k]) - Len(TagLiEnd))>>>>
                  \o ElementsFrom(hl, k + 1)
    ELSE IF IsHLine(hl[k]) THEN <<<<"h">>>> \o ElementsFrom(hl, k + 1)
    ELSE ElementsFrom(hl, k + 1)

\* The content element each non-blank line of the document from line k on is
\* due, in input order.
RECURSIVE DueFrom(_)
DueFrom(k) ==
    IF k > Len(DocLines) THEN <<>>
    ELSE LET l == StyledLine(k)
         IN  (IF l = <<>> THEN <<>>
              ELSE IF IsHeading(l) THEN <<<<"h">>>>
              ELSE IF IsUnorderedItem(l) \/ IsOrderedItem(l)
                   THEN <<<<"li", Strip(From(l, 1))>>>>
              ELSE <<<<"p", l>>>>) \o DueFrom(k + 1)

\* C10: the content elements of the returned output are, in order, one per
\* non-blank line of the document: a heading for a heading line, a '<li>'
\* with the item's text for a list-item line, a paragraph piece with the
\* line's text otherwise; none is missing, none is repeated.
C10_OneElementPerLine ==
    pc = "done" => ElementsFrom(html_lines, 1) = DueFrom(1)

\* A parsed document with a heading, a list item and a paragraph line.
C10_Witness ==
    /\ pc = "done"
    /\ {DueFrom(1)[n][1] : n \in 1..Len(DueFrom(1))} = {"h", "li", "p"}

-----------------------------------------------------------------------------
(* Inline styling on its own: documents of one line made of the two        *)
(* markers and a letter, long enough for two runs on one line.             *)

\* Longest line drawn by StyleInit.
MaxStyleLen == 8

StyleAlphabet == {"*", "_", "a"}

\* All sequences over alphabet of length at most n.
RECURSIVE StringsOver(_, _)
StringsOver(alphabet, n) ==
    IF n = 0 THEN {<<>>}
    ELSE LET shorter == StringsOver(alphabet, n - 1)
         IN  shorter \cup {Append(s, c) : s \in {t \in shorter : Len(t) = n - 1},
                                          c \in alphabet}

StyleInit ==
    /\ md_content \in StringsOver(StyleAlphabet, MaxStyleLen)
    /\ md_lines = SplitLines(md_content)
    /\ i = 0
    /\ html_lines = <<>>
    /\ in_unordered_list = FALSE
    /\ in_ordered_list = FALSE
    /\ paragraph_lines = <<>>
    /\ pc = "loop"
    /\ html_content = <<>>
    /\ NoEnv

\* The branches such a line can take.
StyleNext ==
    \/ OrderedItem
    \/ ParagraphLine
    \/ Finish

StyleSpec == StyleInit /\ [][StyleNext]_vars

\* The line has been styled and stored: it is in the accumulator, or in the
\* '<li>' just appended (without its leading '*').
StyledStored == pc = "loop" /\ i = 1

StoredLine ==
    IF paragraph_lines # <<>> THEN paragraph_lines[1]
    ELSE LET li == html_lines[Len(html_lines)]
         IN  <<"*">> \o SubSeq(li, Len(TagLi) + 1, Len(li) - Len(TagLiEnd))

\* sub stands in s at position k.
At(s, k, sub) == k + Len(sub) - 1 <= Len(s) /\ SubSeq(s, k, k + Len(sub) - 1) = sub

\* s with every style tag put back to its marker pair.
RECURSIVE UnstyleFrom(_, _)
UnstyleFrom(s, k) ==
    IF k > Len(s) THEN <<>>
    ELSE IF At(s, k, TagB) THEN <<"*", "*">> \o UnstyleFrom(s, k + Len(TagB))
    ELSE IF At(s, k, TagBEnd) THEN <<"*", "*">> \o UnstyleFrom(s, k + Len(TagBEnd))
    ELSE IF At(s, k, TagEm) THEN <<"_", "_">> \o UnstyleFrom(s, k + Len(TagEm))
    ELSE IF At(s, k, TagEmEnd) THEN <<"_", "_">> \o UnstyleFrom(s, k + Len(TagEmEnd))
    ELSE <<s[k]>> \o UnstyleFrom(s, k + 1)

Unstyle(s) == UnstyleFrom(s, 1)

\* The marker pair m m stands somewhere in s.
HasPair(s, m) == \E p \in 1..Len(s) : At(s, p, <<m, m>>)

\* Two marker pairs that do not overlap stand in s: a complete run.
HasRun(s, m) ==
    \E p, q \in 1..Len(s) : q >= p + 2 /\ At(s, p, <<m, m>>) /\ At(s, q, <<m, m>>)

\* Every opening tag open of s has a closing tag close after it, and the text
\* up to the first one, markers put back, holds no marker pair m m.
ShortestRuns(s, open, close, m) ==
    \A p \in 1..Len(s) :
       At(s, p, open) =>
          \E q \in (p + Len(open))..Len(s) :
             /\ At(s, q, close)
             /\ \A r \in (p + Len(open))..(q - 1) : ~At(s, r, close)
             /\ ~HasPair(Unstyle(SubSeq(s, p + Len(open), q - 1)), m)

\* Number of positions of s where sub stands.
Occurrences(s, sub) == Cardinality({p \in 1..Len(s) : At(s, p, sub)})

\* C11: the styled line is the input line with marker pairs turned into tags
\* and nothing else changed; each '<b>' / '<em>' element ends at the first
\* closing pair, so its text holds no marker pair of its kind and two runs are
\* two elements; no complete run is left in the result; a line without a
\* complete run of either kind is unchanged.
C11_ShortestMatchStyling ==
    StyledStored =>
        LET text == md_lines[1]
            out == StoredLine
        IN  /\ Unstyle(out) = text
            /\ ShortestRuns(out, TagB, TagBEnd, "*")
            /\ ShortestRuns(out, TagEm, TagEmEnd, "_")
            /\ Occurrences(out, TagB) = Occurrences(out, TagBEnd)
            /\ Occurrences(out, TagEm) = Occurrences(out, TagEmEnd)
            /\ ~HasRun(out, "*")
            /\ ~HasRun(out, "_")
            /\ (~HasRun(text, "*") /\ ~HasRun(text, "_")) => out = text

\* A line with two bold runs has been styled.
C11_Witness ==
    /\ StyledStored
    /\ Occurrences(StoredLine, TagB) = 2

\* C12: on the empty document no line is emitted and the returned text is
\* empty.
C12_EmptyInEmptyOut ==
    (pc = "done" /\ md_content = <<>>) => (html_lines = <<>> /\ html_content = <<>>)

\* The empty document has been parsed.
C12_Witness == pc = "done" /\ md_content = <<>> /\ i = 0

\* C13: the call is in the loop or has returned, never anywhere else; while
\* in the loop it has a next line to take or is past the last one, and the
\* if / elif / else chain has a branch for every line, so a step is always
\* possible; each step of the loop takes the next line of the document and
\* only that one, and the step after the last line returns.  The number of
\* lines left, plus one while in the loop, falls with every step, so the call
\* returns after Len(md_lines) + 1 steps.
C13_TotalAndTerminates ==
    /\ [](/\ pc \in {"loop", "done"}
          /\ i \in 0..Len(md_lines)
          /\ pc = "done" => i = Len(md_lines)
          /\ InLoop =>
                (IsHeading(line) \/ IsUnorderedItem(line) \/ IsOrderedItem(line)
                    \/ IsOther(line)))
    /\ [][(pc = "loop" /\ i < Len(md_lines) /\ i' = i + 1 /\ pc' = "loop")
          \/ (pc = "loop" /\ i = Len(md_lines) /\ i' = i /\ pc' = "done")]_vars

\* A document of three lines has been processed to the end.
C13_Witness == pc = "done" /\ i = 3 /\ Len(md_lines) = 3

-----------------------------------------------------------------------------
(* Two invocations of parse_markdown on two documents, run by two threads. *)
(* The variables md_content .. html_content are the frame of the           *)
(* invocation whose thread is running, other is the frame of the one that  *)
(* is suspended, and a thread switch exchanges them.  Every local of       *)
(* parse_markdown (lines 41-44, the loop variables, the two inner          *)
(* functions) belongs to the frame; the module has no global.              *)

\* Longest document of an invocation drawn by ConcInit.
MaxConcLen == 2

ConcAlphabet == {"#", "-", "*", "a", NL}

\* The frame of a call of parse_markdown(doc) that has not run yet.
Invocation(doc) ==
    [md_content |-> doc, md_lines |-> SplitLines(doc), i |-> 0,
     html_lines |-> <<>>, in_unordered_list |-> FALSE,
     in_ordered_list |-> FALSE, paragraph_lines |-> <<>>, pc |-> "loop",
     html_content |-> <<>>]

\* The frame of the running invocation.
Frame ==
    [md_content |-> md_content, md_lines |-> md_lines, i |-> i,
     html_lines |-> html_lines, in_unordered_list |-> in_unordered_list,
     in_ordered_list |-> in_ordered_list, paragraph_lines |-> paragraph_lines,
     pc |-> pc, html_content |-> html_content]

ConcInit ==
    /\ md_content \in StringsOver(ConcAlphabet, MaxConcLen)
    /\ md_lines = SplitLines(md_content)
    /\ i = 0
    /\ html_lines = <<>>
    /\ in_unordered_list = FALSE
    /\ in_ordered_list = FALSE
    /\ paragraph_lines = <<>>
    /\ pc = "loop"
    /\ html_content = <<>>
    /\ other \in {Invocation(doc) : doc \in StringsOver(ConcAlphabet, MaxConcLen)}
    /\ argv = <<>>
    /\ files = <<>>
    /\ stderr = <<>>
    /\ exit_status = <<>>

\* A thread switch with paragraph_lines a list of the module, shared by the
\* two invocations, instead of a local of each.
Switch_shared_accumulator ==
    /\ other # NoInvocation
    /\ md_content' = other.md_content
    /\ md_lines' = other.md_lines
    /\ i' = other.i
    /\ html_lines' = other.html_lines
    /\ in_unordered_list' = other.in_unordered_list
    /\ in_ordered_list' = other.in_ordered_list
    /\ pc' = other.pc
    /\ html_content' = other.html_content
    /\ other' = Frame
    /\ UNCHANGED <<paragraph_lines, argv, files, stderr, exit_status>>

\* A thread switch between two steps: the suspended invocation resumes with
\* its own frame and the running one is suspended with its own.
Switch ==
    /\ other # NoInvocation
    /\ md_content' = other.md_content
    /\ md_lines' = other.md_lines
    /\ i' = other.i
    /\ html_lines' = other.html_lines
    /\ in_unordered_list' = other.in_unordered_list
    /\ in_ordered_list' = other.in_ordered_list
    /\ paragraph_lines' = other.paragraph_lines
    /\ pc' = other.pc
    /\ html_content' = other.html_content
    /\ other' = Frame
    /\ UNCHANGED <<argv, files, stderr, exit_status>>

ConcNext ==
    \/ Heading
    \/ UnorderedItem
    \/ OrderedItem
    \/ ParagraphLine
    \/ BlankLine
    \/ Finish
    \/ Switch

ConcSpec == ConcInit /\ [][ConcNext]_vars

\* parse_markdown run alone, as a function of the document: the loop body
\* applied to the lines in order, then the statements after the loop.
AloneStep(st, l) ==
    IF IsHeading(l)
    THEN [hl |-> Append(close_ordered(close_unordered(
                            close_paragraph(st.hl, st.pl), st.ul), st.ol),
                        heading_html(l)),
          pl |-> <<>>, ul |-> FALSE, ol |-> FALSE]
    ELSE IF IsUnorderedItem(l)
    THEN [hl |-> Append(open_unordered(close_paragraph(st.hl, st.pl), st.ul),
                        list_item_html(l)),
          pl |-> <<>>, ul |-> TRUE, ol |-> st.ol]
    ELSE IF IsOrderedItem(l)
    THEN [hl |-> Append(open_ordered(close_paragraph(st.hl, st.pl), st.ol),
                        list_item_html(l)),
          pl |-> <<>>, ul |-> st.ul, ol |-> TRUE]
    ELSE IF l # <<>>
    THEN [hl |-> close_ordered(close_unordered(st.hl, st.ul), st.ol),
          pl |-> Append(st.pl, l), ul |-> FALSE, ol |-> FALSE]
    ELSE [hl |-> close_paragraph(close_ordered(close_unordered(st.hl, st.ul),
                                               st.ol), st.pl),
          pl |-> <<>>, ul |-> FALSE, ol |-> FALSE]

RECURSIVE AloneFrom(_, _, _)
AloneFrom(st, lines, k) ==
    IF k > Len(lines)
    THEN Join(<<NL>>, close_ordered(close_unordered(
                          close_paragraph(st.hl, st.pl), st.ul), st.ol))
    ELSE AloneFrom(AloneStep(st, apply_text_styles(Strip(lines[k]))), lines, k + 1)

ParseAlone(doc) ==
    AloneFrom([hl |-> <<>>, pl |-> <<>>, ul |-> FALSE, ol |-> FALSE],
              SplitLines(doc), 1)

\* C14: whatever the interleaving of the steps of the two invocations, each
\* returns what parse_markdown returns for its document when run alone.
C14_InterleavingKeepsOutputs ==
    /\ pc = "done" => html_content = ParseAlone(md_content)
    /\ other.pc = "done" => other.html_content = ParseAlone(other.md_content)

\* One invocation has returned a paragraph while the other, which started
\* first, is suspended in its loop with a paragraph pending.
C14_Witness ==
    /\ pc = "done"
    /\ Count(html_lines, TagP) = 1
    /\ other.pc = "loop"
    /\ other.i = 1
    /\ other.paragraph_lines # <<>>

-----------------------------------------------------------------------------
(* The command line (lines 130-143) around markdown_to_html (114-127).     *)
(* argv is sys.argv, files the file system as the program sees it, stderr  *)
(* the messages printed to the error stream, exit_status the status of the *)
(* process once it has exited.                                             *)

\* Most positional arguments on a command line drawn by CliInit.
MaxArgs == 3

\* Longest content of a file drawn by CliInit.
MaxFileLen == 1

Script == "./markdown2html.py"

Paths == {"README.md", "README.html"}

Missing == [kind |-> "missing", data |-> <<>>]

Directory == [kind |-> "dir", data |-> <<>>]

File(data) == [kind |-> "file", data |-> data]

RECURSIVE ArgLists(_)
ArgLists(n) ==
    IF n = 0 THEN {<<>>}
    ELSE LET S == ArgLists(n - 1)
         IN  S \cup {Append(a, p) : a \in {b \in S : Len(b) = n - 1}, p \in Paths}

UsageMsg == <<"Usage: ./markdown2html.py README.md README.html">>

MissingMsg(filename) == <<"Missing", filename>>

Traceback == <<"Traceback">>

CliInit ==
    /\ argv \in {<<Script>> \o a : a \in ArgLists(MaxArgs)}
    /\ files \in [Paths -> {Missing, Directory}
                           \cup {File(d) : d \in StringsUpTo(MaxFileLen)}]
    /\ stderr = <<>>
    /\ exit_status = <<>>
    /\ md_content = <<>>
    /\ md_lines = <<>>
    /\ i = 0
    /\ html_lines = <<>>
    /\ in_unordered_list = FALSE
    /\ in_ordered_list = FALSE
    /\ paragraph_lines = <<>>
    /\ pc = "main"
    /\ html_content = <<>>
    /\ other = NoInvocation

md_filename == argv[2]

html_filename == argv[3]

Parser == <<md_content, md_lines, i, html_lines, in_unordered_list,
            in_ordered_list, paragraph_lines, html_content>>

\* print_usage() followed by sys.exit(0).
MainUsage_exit_0 ==
    /\ pc = "main"
    /\ Len(argv) < 3
    /\ stderr' = Append(stderr, UsageMsg)
    /\ exit_status' = <<0>>
    /\ pc' = "exit"
    /\ UNCHANGED <<Parser, other, argv, files>>

\* Lines 131-133.
MainUsage ==
    /\ pc = "main"
    /\ Len(argv) < 3
    /\ stderr' = Append(stderr, UsageMsg)
    /\ exit_status' = <<1>>
    /\ pc' = "exit"
    /\ UNCHANGED <<Parser, other, argv, files>>

\* The missing-input branch opening the output file for writing before it
\* exits.
MainMissing_truncates_output ==
    /\ pc = "main"
    /\ Len(argv) >= 3
    /\ files[md_filename] = Missing
    /\ stderr' = Append(stderr, MissingMsg(md_filename))
    /\ exit_status' = <<1>>
    /\ pc' = "exit"
    /\ files' = [files EXCEPT ![html_filename] =
                     IF @ = Directory THEN @ ELSE File(<<>>)]
    /\ UNCHANGED <<Parser, other, argv>>

\* Lines 135-140.
MainMissing ==
    /\ pc = "main"
    /\ Len(argv) >= 3
    /\ files[md_filename] = Missing
    /\ stderr' = Append(stderr, MissingMsg(md_filename))
    /\ exit_status' = <<1>>
    /\ pc' = "exit"
    /\ UNCHANGED <<Parser, other, argv, files>>

\* Lines 121-124: the input is read and handed to parse_markdown.
ReadFile ==
    /\ pc = "main"
    /\ Len(argv) >= 3
    /\ files[md_filename].kind = "file"
    /\ md_content' = files[md_filename].data
    /\ md_lines' = SplitLines(files[md_filename].data)
    /\ pc' = "loop"
    /\ UNCHANGED <<i, html_lines, in_unordered_list, in_ordered_list,
                   paragraph_lines, html_content, env>>

\* Line 121 on a path that exists and is not a regular file: open raises,
\* nothing catches it, and the interpreter exits with status 1.
ReadFails ==
    /\ pc = "main"
    /\ Len(argv) >= 3
    /\ files[md_filename] = Directory
    /\ stderr' = Append(stderr, Traceback)
    /\ exit_status' = <<1>>
    /\ pc' = "exit"
    /\ UNCHANGED <<Parser, other, argv, files>>

\* Lines 126-127.
WriteFile ==
    /\ pc = "done"
    /\ Len(argv) >= 3
    /\ files[html_filename] # Directory
    /\ files' = [files EXCEPT ![html_filename] = File(html_content)]
    /\ pc' = "written"
    /\ UNCHANGED <<Parser, other, argv, stderr, exit_status>>

\* Line 126 on a directory: open raises and the interpreter exits with
\* status 1.
WriteFails ==
    /\ pc = "done"
    /\ Len(argv) >= 3
    /\ files[html_filename] = Directory
    /\ stderr' = Append(stderr, Traceback)
    /\ exit_status' = <<1>>
    /\ pc' = "exit"
    /\ UNCHANGED <<Parser, other, argv, files>>

\* Line 143.
Exit0 ==
    /\ pc = "written"
    /\ exit_status' = <<0>>
    /\ pc' = "exit"
    /\ UNCHANGED <<Parser, other, argv, files, stderr>>

CliNext ==
    \/ MainUsage
    \/ MainMissing
    \/ ReadFile
    \/ ReadFails
    \/ Heading
    \/ UnorderedItem
    \/ OrderedItem
    \/ ParagraphLine
    \/ BlankLine
    \/ Finish
    \/ WriteFile
    \/ WriteFails
    \/ Exit0

CliSpec == CliInit /\ [][CliNext]_vars

\* C15: with fewer than two positional arguments the only step of the
\* program prints the usage message and exits with status 1; no file is
\* read (md_content stays unread), nothing is parsed (the parser's state
\* stays as at start), no file is written, and nothing follows the exit.
C15_UsageError ==
    /\ [][(pc = "main" /\ Len(argv) < 3)
           => /\ stderr' = <<UsageMsg>>
              /\ exit_status' = <<1>>
              /\ pc' = "exit"
              /\ UNCHANGED <<files, Parser>>]_vars
    /\ [][pc # "exit"]_vars

\* One positional argument, naming a file that exists: usage error.
C15_Witness ==
    /\ pc = "exit"
    /\ Len(argv) = 2
    /\ files[argv[2]].kind = "file"
    /\ stderr = <<UsageMsg>>
    /\ exit_status = <<1>>

\* C16: with two arguments and an input path that does not exist, the only
\* step prints "Missing <path>" and exits with status 1, with nothing
\* parsed and every file, the output path included, as it was; and
\* the exit status becomes 0 only with the output path holding the parse of
\* the content that was read, which is the content of the input path.
C16_MissingInput ==
    /\ [][(pc = "main" /\ Len(argv) >= 3 /\ files[argv[2]] = Missing)
           => /\ stderr' = <<MissingMsg(argv[2])>>
              /\ exit_status' = <<1>>
              /\ pc' = "exit"
              /\ UNCHANGED <<files, Parser>>]_vars
    /\ [][exit_status' = <<0>>
           => /\ pc \in {"written", "exit"}
              /\ files[argv[3]] = File(html_content)
              /\ html_content = ParseAlone(md_content)
              /\ UNCHANGED files]_vars
    /\ [](pc \in {"loop", "done"} => files[argv[2]] = File(md_content))

\* The input path is missing, the output path names a file with content,
\* and the program has exited with the message.
C16_Witness ==
    /\ pc = "exit"
    /\ Len(argv) >= 3
    /\ files[argv[2]] = Missing
    /\ argv[3] # argv[2]
    /\ files[argv[3]].kind = "file"
    /\ files[argv[3]].data # <<>>
    /\ stderr = <<MissingMsg(argv[2])>>
    /\ exit_status = <<1>>

-----------------------------------------------------------------------------
\* The step emits one list item with the given content, after '<ol>' when
\* no ordered list was open and without a new '<ol>' when one was.
EmitsOrderedItem(content) ==
    /\ Emitted # <<>>
    /\ Emitted[Len(Emitted)] = TagLi \o content \o TagLiEnd
    /\ Cardinality({k \in DOMAIN Emitted : IsLiLine(Emitted[k])}) = 1
    /\ Count(Emitted, TagOl) = (IF in_ordered_list THEN 0 ELSE 1)
    /\ ~in_ordered_list => Emitted[Len(Emitted) - 1] = TagOl
    /\ in_ordered_list'
    /\ i' = i + 1

\* C17 as stated: every line whose first non-whitespace character is '*' is
\* emitted as an ordered-list item holding the text after that '*',
\* stripped, with '<ol>' opened first when no ordered list is open.
C17_StarLineIsOrderedItem ==
    [][LET raw == Strip(md_lines[i + 1])
       IN  (InLoop /\ StartsWith(raw, <<"*">>))
             => EmitsOrderedItem(Strip(From(raw, 1)))]_vars

\* C17 with the styling stated: the line is stripped and styled first
\* (lines 61-62), and it is the result that is tested for its first
\* character.  A line whose result starts with '*' is emitted as an
\* ordered-list item holding the styled text after that '*', stripped; a
\* line that starts with a complete '**...**' pair starts with '<b>' by
\* then, is no list item, and joins the paragraph accumulator.
C17_StyledStarLineIsOrderedItem ==
    [][LET raw == Strip(md_lines[i + 1])
       IN  /\ (InLoop /\ StartsWith(line, <<"*">>))
                => EmitsOrderedItem(Strip(From(line, 1)))
           /\ (InLoop /\ StartsWith(raw, <<"*">>) /\ ~StartsWith(line, <<"*">>))
                => /\ StartsWith(line, TagB)
                   /\ paragraph_lines' = Append(paragraph_lines, line)
                   /\ \A k \in DOMAIN Emitted : ~IsLiLine(Emitted[k])
                   /\ ~in_ordered_list']_vars

\* Two '*' lines in a row: one '<ol>', opened by the first, and two items.
C17_Witness ==
    /\ pc = "loop"
    /\ i = 2
    /\ in_ordered_list
    /\ html_lines = <<TagOl, TagLi \o <<"a">> \o TagLiEnd, TagLi \o <<"a">> \o TagLiEnd>>

-----------------------------------------------------------------------------
\* The closing tags of the lists that are open.
OpenListClosers ==
    (IF in_unordered_list THEN <<TagUlEnd>> ELSE <<>>)
        \o (IF in_ordered_list THEN <<TagOlEnd>> ELSE <<>>)

\* The lists opened in seq[1..n] are all closed in it.
ListsClosedUpTo(seq, n) ==
    /\ Count(SubSeq(seq, 1, n), TagUl) = Count(SubSeq(seq, 1, n), TagUlEnd)
    /\ Count(SubSeq(seq, 1, n), TagOl) = Count(SubSeq(seq, 1, n), TagOlEnd)

\* C18: a step on a line that is neither heading nor list item, empty or
\* not, emits the closing tag of every open list before anything else and
\* leaves both flags false; a '-' line that follows an empty line that
\* follows a '-' line opens a '<ul>' of its own, the earlier one being
\* closed; a non-empty such line right after a list item emits the list's
\* closing tag and no '<p>', and every '<p>' of the output stands where all
\* lists before it are closed.
C18_OtherLineClosesLists ==
    /\ [][(InLoop /\ IsOther(line))
           => /\ StartsWith(Emitted, OpenListClosers)
              /\ Count(Emitted, TagUlEnd) = (IF in_unordered_list THEN 1 ELSE 0)
              /\ Count(Emitted, TagOlEnd) = (IF in_ordered_list THEN 1 ELSE 0)
              /\ ~in_unordered_list'
              /\ ~in_ordered_list'
              /\ ListsClosedUpTo(html_lines', Len(html_lines) + Len(OpenListClosers))]_vars
    /\ [][(/\ InLoop
           /\ i >= 2
           /\ IsUnorderedItem(StyledLine(i - 1))
           /\ StyledLine(i) = <<>>
           /\ IsUnorderedItem(line))
           => /\ ListsClosedUpTo(html_lines, Len(html_lines))
              /\ html_lines[Len(html_lines)] \in {TagUlEnd, TagOlEnd}
              /\ Emitted = <<TagUl, list_item_html(line)>>]_vars
    /\ [][(/\ InLoop
           /\ i >= 1
           /\ (IsUnorderedItem(StyledLine(i)) \/ IsOrderedItem(StyledLine(i)))
           /\ IsOther(line)
           /\ line # <<>>)
           => /\ Emitted = OpenListClosers
              /\ Emitted # <<>>
              /\ paragraph_lines' = <<line>>]_vars
    /\ [](\A k \in DOMAIN html_lines :
              html_lines[k] = TagP => ListsClosedUpTo(html_lines, k))

\* "-", an empty line, "-": two '<ul>' blocks of one item each, the first
\* closed before the second opens.
C18_Witness ==
    /\ pc = "loop"
    /\ i = 3
    /\ html_lines = <<TagUl, TagLi \o TagLiEnd, TagUlEnd,
                      TagUl, TagLi \o TagLiEnd>>

-----------------------------------------------------------------------------
\* s is made of whitespace only.
AllSpace(s) == \A k \in DOMAIN s : IsSpace(s[k])

\* C19: a step on a line made only of whitespace does what a step on an
\* empty line does: the open lists are closed, a pending paragraph is
\* emitted as its block, the accumulator is left empty and the line is not
\* in it; and a document whose lines are all of this kind returns the empty
\* string, with no '<p>'.
C19_WhitespaceLineIsEmptyLine ==
    /\ [][LET raw == md_lines[i + 1]
          IN  (InLoop /\ raw # <<>> /\ AllSpace(raw))
                => /\ line = <<>>
                   /\ Emitted = OpenListClosers
                                  \o (IF paragraph_lines # <<>>
                                      THEN <<TagP, Join(TagBr, paragraph_lines), TagPEnd>>
                                      ELSE <<>>)
                   /\ paragraph_lines' = <<>>
                   /\ ~in_unordered_list'
                   /\ ~in_ordered_list'
                   /\ i' = i + 1]_vars
    /\ []((pc = "done" /\ \A k \in DOMAIN md_lines : AllSpace(md_lines[k]))
            => (html_lines = <<>> /\ html_content = <<>>))

\* "a" then a line of one space: the paragraph is out after the second.
C19_Witness ==
    /\ pc = "loop"
    /\ i = 2
    /\ md_lines[2] = <<" ">>
    /\ html_lines = <<TagP, <<"a">>, TagPEnd>>
    /\ paragraph_lines = <<>>

-----------------------------------------------------------------------------
\* C20: between line steps, when the paragraph accumulator is not empty
\* both list flags are false (no list is open while a paragraph is), the
\* accumulator holds no empty line, and every '<p>' of the output is
\* followed by a non-empty content line and then '</p>'.
C20_ParagraphExcludesLists ==
    /\ paragraph_lines # <<>> => (~in_unordered_list /\ ~in_ordered_list)
    /\ paragraph_lines # <<>> => ListsClosedUpTo(html_lines, Len(html_lines))
    /\ \A k \in DOMAIN paragraph_lines : paragraph_lines[k] # <<>>
    /\ \A k \in DOMAIN html_lines :
           html_lines[k] = TagP
             => /\ k + 2 <= Len(html_lines)
                /\ html_lines[k + 1] # <<>>
                /\ html_lines[k + 1] # TagPEnd
                /\ html_lines[k + 2] = TagPEnd

\* A paragraph is pending right after the list that its first line closed.
C20_Witness ==
    /\ pc = "loop"
    /\ paragraph_lines # <<>>
    /\ Count(html_lines, TagUlEnd) = 1
    /\ html_lines[Len(html_lines)] = TagUlEnd

====
